---- MODULE Spec2Model ----
(***************************************************************************)
(* shelved_cache.persistent_cache: PersistentCache wraps a cachetools      *)
(* cache (here LRUCache) and mirrors it into a shelve.Shelf on disk.       *)
(*                                                                         *)
(* One action of the model is one complete call of a public method, with   *)
(* every nested call it makes (lazy initialisation, eviction, the          *)
(* deletion callback, the store write and sync).  A raised exception ends  *)
(* the call where Python would unwind it; the effects made before the      *)
(* raise stay.                                                             *)
(***************************************************************************)
EXTENDS Integers, Sequences, FiniteSets, TLC

VARIABLES
    filename,         \* self.filename: the backing name, or None
    hooked,           \* TRUE iff self.wrapped is an instance of the DelMixin subclass
    wrapped,          \* self.wrapped: the LRU cache, least recently used first
    persistent_dict,  \* self.persistent_dict: None or the open Shelf handle
    shelf,            \* the records of the shelf file: store key -> (key, value)
    synced,           \* TRUE iff nothing was written to the shelf since its last sync/close
    last,             \* the call just completed: operation, arguments, result, and
                      \* what the call before it was, where a property needs it
    log,              \* the effects of that call, in the order they happened
    everClosed,       \* history: close() has released an open handle of this instance
    bare              \* shadow: a bare LRUCache given the same calls (no persistence)

vars == <<filename, hooked, wrapped, persistent_dict, shelf, synced, last, log,
          everClosed, bare>>

----------------------------------------------------------------------------
(* Bounds *)

MaxKey == 1        \* keys are the Python ints -2, -1 and 1..MaxKey
MaxVal == 2        \* values are 1..MaxVal
maxsize == 2       \* the maxsize given to the wrapped cache's constructor

Keys == {-2, -1} \cup (1..MaxKey)
Values == 1..MaxVal

None == "None"
Handle == "Shelf"
FileName == "cache.db"
NoKey == 0
NoVal == 0

----------------------------------------------------------------------------
(* Python builtins *)

\* hash() of a CPython int n with |n| < 2^61 - 1: n itself, except that -1 is
\* reserved as the error code of the C API, so hash(-1) is -2.
PyHash(key) == IF key = -1 THEN -2 ELSE key

\* str() of an int: its decimal rendering
PyStr(n) == ToString(n)

----------------------------------------------------------------------------
(* Sequences helpers *)

RECURSIVE IndexOf(_, _, _)
IndexOf(w, key, i) ==
    IF i > Len(w) THEN 0
    ELSE IF w[i].key = key THEN i
    ELSE IndexOf(w, key, i + 1)

Without(w, i) == [j \in 1..(Len(w) - 1) |-> IF j < i THEN w[j] ELSE w[j + 1]]

CacheKeys(w) == {w[i].key : i \in 1..Len(w)}

\* the cache as a mapping key -> value
CacheMap(w) == [k \in CacheKeys(w) |-> w[IndexOf(w, k, 1)].value]

Event(ev, key, hk) == [ev |-> ev, key |-> key, hk |-> hk]

RECURSIVE Perms(_)
Perms(S) ==
    IF S = {} THEN {<<>>}
    ELSE UNION {{<<x>> \o p : p \in Perms(S \ {x})} : x \in S}

----------------------------------------------------------------------------
(* The state one call works on.  err = "ok" until an exception is raised;   *)
(* every statement after a raise is skipped.                                *)

Ok == "ok"
CacheKeyError == "KeyError(key)"      \* raised by the wrapped cache
StoreKeyError == "KeyError(hkey)"     \* raised by the shelf
TypeError == "TypeError"
AttributeError == "AttributeError"
ValueError == "ValueError"
PicklingError == "PicklingError"      \* raised by the shelf's pickler

\* a value that pickle cannot serialise (a lambda, an open file)
Unpicklable == MaxVal + 1

Machine(h, w, pd, sh, sy, it) ==
    [hooked |-> h, wrapped |-> w, pd |-> pd, shelf |-> sh, synced |-> sy,
     iter |-> it, log |-> <<>>, err |-> Ok, ret |-> NoVal, found |-> FALSE]

Raise(m, e) == [m EXCEPT !.err = e]
Emit(m, ev, key, hk) == [m EXCEPT !.log = Append(@, Event(ev, key, hk))]

----------------------------------------------------------------------------
(* shelve.Shelf, as PersistentCache uses it *)

\* del self.persistent_dict[hkey]
ShelfDel(m, hkey) ==
    IF m.pd = None THEN Raise(m, TypeError)
    ELSE IF hkey \notin DOMAIN m.shelf THEN Raise(m, StoreKeyError)
    ELSE Emit([m EXCEPT !.shelf = [h \in (DOMAIN m.shelf) \ {hkey} |-> m.shelf[h]],
                        !.synced = FALSE],
              "store_del", NoKey, hkey)

\* self.persistent_dict[hkey] = (key, value): the Shelf pickles the pair
\* before it writes, and a failing pickle leaves the file as it was
ShelfSet(m, hkey, key, value) ==
    IF m.pd = None THEN Raise(m, TypeError)
    ELSE IF value = Unpicklable THEN Raise(m, PicklingError)
    ELSE Emit([m EXCEPT !.shelf = [h \in (DOMAIN m.shelf) \cup {hkey} |->
                                      IF h = hkey THEN [key |-> key, value |-> value]
                                      ELSE m.shelf[h]],
                        !.synced = FALSE],
              "store_set", key, hkey)

\* self.persistent_dict.sync()
ShelfSync(m) ==
    IF m.pd = None THEN Raise(m, AttributeError)
    ELSE Emit([m EXCEPT !.synced = TRUE], "sync", NoKey, "")

\* self.persistent_dict.close(): a Shelf syncs before it closes its file
ShelfClose(m) ==
    IF m.pd = None THEN Raise(m, AttributeError)
    ELSE Emit([m EXCEPT !.synced = TRUE], "close", NoKey, "")

\* the keys of the shelf file as the iteration of .items() meets them: the
\* order is the dbm backend's, given here by m.iter
ShelfKeys(m) == SelectSeq(m.iter, LAMBDA h : h \in DOMAIN m.shelf)

----------------------------------------------------------------------------
(* cachetools.LRUCache (every item has size 1), as the class of            *)
(* self.wrapped.  Its removals go through __delitem__, which the DelMixin  *)
(* subclass overrides.                                                     *)

RECURSIVE delete_callback(_, _), initialize_if_not_initialized(_)

\* key in self.wrapped
Cache__contains__(w, key) == key \in CacheKeys(w)

\* LRUCache.__getitem__: the value, and the key becomes the most recently used
Cache__getitem__(m, key) ==
    LET i == IndexOf(m.wrapped, key, 1) IN
    IF i = 0 THEN Raise(m, CacheKeyError)
    ELSE [m EXCEPT !.ret = m.wrapped[i].value,
                   !.wrapped = Append(Without(m.wrapped, i), m.wrapped[i])]

\* LRUCache.__delitem__: KeyError if the key is absent
Cache__delitem__(m, key) ==
    LET i == IndexOf(m.wrapped, key, 1) IN
    IF i = 0 THEN Raise(m, CacheKeyError)
    ELSE Emit([m EXCEPT !.wrapped = Without(m.wrapped, i)], "mem_del", key, "")

\* mutant: the removal is not reported to the callback
DelMixin__delitem__silent(m, key) == Cache__delitem__(m, key)

\* mutant: the callback runs before the removal is attempted
DelMixin__delitem__callback_first(m, key) ==
    LET m1 == delete_callback(m, key) IN
    IF m1.err # Ok THEN m1 ELSE Cache__delitem__(m1, key)

\* DelMixin.__delitem__
DelMixin__delitem__(m, key) ==
    LET m1 == Cache__delitem__(m, key) IN
    IF m1.err # Ok THEN m1 ELSE delete_callback(m1, key)

\* del self.wrapped[key], dispatched on the class __init__ gave self.wrapped
Wrapped__delitem__(m, key) ==
    IF m.hooked THEN DelMixin__delitem__(m, key) ELSE Cache__delitem__(m, key)

\* LRUCache.popitem: pop the least recently used key; pop() deletes it with
\* del self[key]
Cache_popitem(m) ==
    IF m.wrapped = <<>> THEN Raise(m, CacheKeyError)
    ELSE Wrapped__delitem__(Emit(m, "evict", m.wrapped[1].key, ""), m.wrapped[1].key)

\* the loop of Cache.__setitem__: while currsize + size > maxsize: popitem()
RECURSIVE EvictWhileFull(_)
EvictWhileFull(m) ==
    IF m.err # Ok THEN m
    ELSE IF Len(m.wrapped) + 1 > maxsize THEN EvictWhileFull(Cache_popitem(m))
    ELSE m

\* LRUCache.__setitem__: self.wrapped[key] = value
Cache__setitem__(m, key, value) ==
    IF 1 > maxsize THEN Raise(m, ValueError)
    ELSE
      LET m1 == IF Cache__contains__(m.wrapped, key) THEN m ELSE EvictWhileFull(m) IN
      IF m1.err # Ok THEN m1
      ELSE
        LET i == IndexOf(m1.wrapped, key, 1)
            rest == IF i = 0 THEN m1.wrapped ELSE Without(m1.wrapped, i)
        IN Emit([m1 EXCEPT !.wrapped = Append(rest, [key |-> key, value |-> value])],
                "mem_set", key, "")

----------------------------------------------------------------------------
(* PersistentCache *)

\* __init__: the class of self.wrapped (TRUE: the DelMixin subclass, built with
\* self.delete_callback)
__init__(fn) == [hooked |-> (fn # None), wrapped |-> <<>>, persistent_dict |-> None]

hash_key(key) == PyStr(PyHash(key))

delete_callback(m, key) ==
    LET m1 == initialize_if_not_initialized(Emit(m, "callback", key, "")) IN
    IF m1.err # Ok THEN m1 ELSE ShelfDel(m1, hash_key(key))

\* for hk, (k, v) in self.persistent_dict.items(): self.wrapped[k] = v
\* The keys are listed when the iteration starts and each record is read when
\* its key is reached.
\* mutant: the replay writes each record back to the shelf
RECURSIVE LoadLoop_rewriting(_, _)
LoadLoop_rewriting(m, hks) ==
    IF m.err # Ok \/ hks = <<>> THEN m
    ELSE IF Head(hks) \notin DOMAIN m.shelf THEN Raise(m, StoreKeyError)
    ELSE LET rec == m.shelf[Head(hks)]
             m1 == Cache__setitem__(Emit(m, "load", rec.key, Head(hks)), rec.key, rec.value)
             m2 == IF m1.err # Ok THEN m1 ELSE ShelfSet(m1, Head(hks), rec.key, rec.value)
         IN LoadLoop_rewriting(m2, Tail(hks))

RECURSIVE LoadLoop(_, _)
LoadLoop(m, hks) ==
    IF m.err # Ok \/ hks = <<>> THEN m
    ELSE IF Head(hks) \notin DOMAIN m.shelf THEN Raise(m, StoreKeyError)
    ELSE LET rec == m.shelf[Head(hks)] IN
         LoadLoop(Cache__setitem__(Emit(m, "load", rec.key, Head(hks)), rec.key, rec.value),
                  Tail(hks))

\* mutant: the test of self.filename is missing
initialize_if_not_initialized_unnamed(m) ==
    IF m.pd = None
    THEN LoadLoop(Emit([m EXCEPT !.pd = Handle], "open", NoKey, ""), ShelfKeys(m))
    ELSE m

initialize_if_not_initialized(m) ==
    IF filename # None /\ m.pd = None
    THEN LoadLoop(Emit([m EXCEPT !.pd = Handle], "open", NoKey, ""), ShelfKeys(m))
    ELSE m

\* mutant: the record is written and not synced
__setitem__unsynced(m, key, value) ==
    LET m1 == initialize_if_not_initialized(m)
        m2 == IF m1.err # Ok THEN m1 ELSE Cache__setitem__(m1, key, value)
    IN IF m2.err # Ok THEN m2
       ELSE IF m2.pd # None THEN ShelfSet(m2, hash_key(key), key, value)
       ELSE m2

\* mutant: the record is written to the shelf and not to the wrapped cache
__setitem__store_only(m, key, value) ==
    LET m1 == initialize_if_not_initialized(m) IN
    IF m1.err # Ok THEN m1
    ELSE IF m1.pd # None
    THEN LET m3 == ShelfSet(m1, hash_key(key), key, value) IN
         IF m3.err # Ok THEN m3 ELSE ShelfSync(m3)
    ELSE m1

\* mutant: the record is written under str(key), not under hash_key(key)
__setitem__unhashed(m, key, value) ==
    LET m1 == initialize_if_not_initialized(m)
        m2 == IF m1.err # Ok THEN m1 ELSE Cache__setitem__(m1, key, value)
        hkey == PyStr(key)
    IN IF m2.err # Ok THEN m2
       ELSE IF m2.pd # None
       THEN LET m3 == ShelfSet(m2, hkey, key, value) IN
            IF m3.err # Ok THEN m3 ELSE ShelfSync(m3)
       ELSE m2

\* mutant: the record is written and synced before the wrapped cache is set
__setitem__store_first(m, key, value) ==
    LET m1 == initialize_if_not_initialized(m)
        hkey == hash_key(key)
        m2 == IF m1.err # Ok \/ m1.pd = None THEN m1 ELSE ShelfSet(m1, hkey, key, value)
        m3 == IF m2.err # Ok \/ m2.pd = None THEN m2 ELSE ShelfSync(m2)
    IN IF m3.err # Ok THEN m3 ELSE Cache__setitem__(m3, key, value)

__setitem__(m, key, value) ==
    LET m1 == initialize_if_not_initialized(m)
        m2 == IF m1.err # Ok THEN m1 ELSE Cache__setitem__(m1, key, value)
        hkey == hash_key(key)
    IN IF m2.err # Ok THEN m2
       ELSE IF m2.pd # None
       THEN LET m3 == ShelfSet(m2, hkey, key, value) IN
            IF m3.err # Ok THEN m3 ELSE ShelfSync(m3)
       ELSE m2

\* mutant: a read that found its key flushes the shelf
__getitem__syncing(m, item) ==
    LET m1 == initialize_if_not_initialized(m)
        m2 == IF m1.err # Ok THEN m1 ELSE Cache__getitem__(m1, item)
    IN IF m2.err # Ok \/ m2.pd = None THEN m2 ELSE ShelfSync(m2)

__getitem__(m, item) ==
    LET m1 == initialize_if_not_initialized(m) IN
    IF m1.err # Ok THEN m1 ELSE Cache__getitem__(m1, item)

\* __getattr__: the attribute of self.wrapped is looked up after the lazy
\* initialisation; the caller then uses it
__getattr__(m) == initialize_if_not_initialized(m)

\* mutant: the membership test does not initialise first
__contains__uninitialized(m, item) ==
    [m EXCEPT !.found = Cache__contains__(m.wrapped, item)]

__contains__(m, item) ==
    LET m1 == initialize_if_not_initialized(m) IN
    IF m1.err # Ok THEN m1 ELSE [m1 EXCEPT !.found = Cache__contains__(m1.wrapped, item)]

\* mutant: close() without the None test, as __del__ does without its try
close_unguarded(m) ==
    LET m1 == ShelfClose(m) IN
    IF m1.err # Ok THEN m1 ELSE [m1 EXCEPT !.pd = None]

close(m) ==
    IF m.pd # None
    THEN LET m1 == ShelfClose(m) IN
         IF m1.err # Ok THEN m1 ELSE [m1 EXCEPT !.pd = None]
    ELSE m

----------------------------------------------------------------------------
(* The program: one PersistentCache(LRUCache, filename, maxsize=maxsize)   *)
(* at a time on the shelf file, used sequentially.                         *)

EmptyShelf == [h \in {} |-> [key |-> NoKey, value |-> NoVal]]

NoCall == [op |-> "init", key |-> NoKey, value |-> NoVal, ret |-> NoVal,
           found |-> FALSE, err |-> Ok, set_before |-> NoVal, close_before |-> FALSE]

\* set_before: the value v of the successful cache[key] = v that came right
\* before this cache[key]; close_before: this close() came right after a close()
Call(op, key, value, m) ==
    [op |-> op, key |-> key, value |-> value, ret |-> m.ret, found |-> m.found,
     err |-> m.err,
     set_before |-> IF op = "getitem" /\ last.op = "setitem" /\ last.err = Ok
                       /\ last.key = key
                    THEN last.value ELSE NoVal,
     close_before |-> (op = "close" /\ last.op = "close")]

\* the orders in which the dbm backend may list the shelf's keys, when this
\* call is the one that opens the shelf
Orders ==
    IF filename # None /\ persistent_dict = None THEN Perms(DOMAIN shelf) ELSE {<<>>}

Start(order) == Machine(hooked, wrapped, persistent_dict, shelf, synced, order)

BareStart == Machine(FALSE, bare.wrapped, None, EmptyShelf, TRUE, <<>>)

BareResult(m) == [wrapped |-> m.wrapped, ret |-> m.ret, found |-> m.found, err |-> m.err]

\* the instance and the file after a call that ended in machine state m
Finish(op, key, value, m) ==
    /\ wrapped' = m.wrapped
    /\ persistent_dict' = m.pd
    /\ shelf' = m.shelf
    /\ synced' = m.synced
    /\ log' = m.log
    /\ last' = Call(op, key, value, m)
    /\ UNCHANGED <<filename, hooked>>

Init ==
    /\ filename \in {FileName, None}
    /\ hooked = __init__(filename).hooked
    /\ wrapped = __init__(filename).wrapped
    /\ persistent_dict = __init__(filename).persistent_dict
    /\ shelf = EmptyShelf
    /\ synced = TRUE
    /\ last = NoCall
    /\ log = <<>>
    /\ everClosed = FALSE
    /\ bare = BareResult(Machine(FALSE, <<>>, None, EmptyShelf, TRUE, <<>>))

\* cache[key] = value
SetItem(key, value) ==
    \E order \in Orders :
        /\ Finish("setitem", key, value, __setitem__(Start(order), key, value))
        /\ bare' = IF filename = None
                   THEN BareResult(Cache__setitem__(BareStart, key, value))
                   ELSE bare
        /\ UNCHANGED everClosed

\* cache[key]
GetItem(key) ==
    \E order \in Orders :
        /\ Finish("getitem", key, NoVal, __getitem__(Start(order), key))
        /\ bare' = IF filename = None
                   THEN BareResult(Cache__getitem__(BareStart, key))
                   ELSE bare
        /\ UNCHANGED everClosed

\* key in cache
Contains(key) ==
    \E order \in Orders :
        /\ Finish("contains", key, NoVal, __contains__(Start(order), key))
        /\ bare' = IF filename = None
                   THEN [BareResult(BareStart) EXCEPT
                            !.found = Cache__contains__(bare.wrapped, key)]
                   ELSE bare
        /\ UNCHANGED everClosed

\* cache.__delitem__(key): __getattr__ forwards to self.wrapped.__delitem__
DelItem(key) ==
    \E order \in Orders :
        LET m1 == __getattr__(Start(order))
            m2 == IF m1.err # Ok THEN m1 ELSE Wrapped__delitem__(m1, key)
        IN /\ Finish("delitem", key, NoVal, m2)
           /\ bare' = IF filename = None
                      THEN BareResult(Cache__delitem__(BareStart, key))
                      ELSE bare
           /\ UNCHANGED everClosed

\* cache.currsize: __getattr__ forwards to self.wrapped.currsize
GetCurrsize ==
    \E order \in Orders :
        LET m1 == __getattr__(Start(order))
            m2 == IF m1.err # Ok THEN m1 ELSE [m1 EXCEPT !.ret = Len(m1.wrapped)]
        IN /\ Finish("currsize", NoKey, NoVal, m2)
           /\ bare' = IF filename = None
                      THEN [BareResult(BareStart) EXCEPT !.ret = Len(bare.wrapped)]
                      ELSE bare
           /\ UNCHANGED everClosed

\* cache.close()
Close ==
    /\ Finish("close", NoKey, NoVal, close(Start(<<>>)))
    /\ everClosed' = (everClosed \/ persistent_dict # None)
    /\ bare' = IF filename = None THEN BareResult(BareStart) ELSE bare

\* The instance is dropped (__del__ closes the shelf if it is open) and a new
\* PersistentCache is constructed on the same filename.
NewInstance ==
    /\ hooked' = __init__(filename).hooked
    /\ wrapped' = __init__(filename).wrapped
    /\ persistent_dict' = __init__(filename).persistent_dict
    /\ synced' = TRUE
    /\ last' = NoCall
    /\ log' = <<>>
    /\ everClosed' = FALSE
    /\ bare' = BareResult(Machine(FALSE, <<>>, None, EmptyShelf, TRUE, <<>>))
    /\ UNCHANGED <<filename, shelf>>

Next ==
    \/ \E key \in Keys, value \in Values : SetItem(key, value)
    \/ \E key \in Keys : GetItem(key)
    \/ \E key \in Keys : Contains(key)
    \/ \E key \in Keys : DelItem(key)
    \/ GetCurrsize
    \/ Close
    \/ NewInstance

Spec == Init /\ [][Next]_vars

----------------------------------------------------------------------------
(* Properties *)

Enabled == filename # None
Open == persistent_dict # None

HashKeys(w) == {hash_key(k) : k \in CacheKeys(w)}
RecordKeys(sh) == {sh[h].key : h \in DOMAIN sh}
Events(l, ev) == {i \in 1..Len(l) : l[i].ev = ev}

\* a new PersistentCache on the same filename after its lazy load from the
\* shelf contents sh, the backend listing the keys in the given order
ReloadedFrom(sh, order) ==
    initialize_if_not_initialized(
        Machine(__init__(filename).hooked, __init__(filename).wrapped,
                __init__(filename).persistent_dict, sh, TRUE, order))

Reloaded(order) == ReloadedFrom(shelf, order)

\* C1: with persistence enabled and the store open, the store's keys are
\* exactly the hash_key of the keys of the in-memory cache.
C1_StoreKeysMirrorCache ==
    (Enabled /\ Open) => DOMAIN shelf = HashKeys(wrapped)

\* C2: with the store open, a new instance on the same filename holds after
\* its lazy load the same key-value mapping as this instance's in-memory cache.
C2_ReloadEqualsCache ==
    (Enabled /\ Open) =>
        \A order \in Perms(DOMAIN shelf) :
            /\ Reloaded(order).err = Ok
            /\ CacheMap(Reloaded(order).wrapped) = CacheMap(wrapped)

\* C3: a set that returned without error, with persistence enabled, left the
\* record (key, value) under hash_key(key), and the sync is the last store
\* effect of the call, after the write.
C3_SetIsStoredAndSynced ==
    (Enabled /\ last.op = "setitem" /\ last.err = Ok) =>
        /\ hash_key(last.key) \in DOMAIN shelf
        /\ shelf[hash_key(last.key)] = [key |-> last.key, value |-> last.value]
        /\ synced
        /\ Len(log) >= 2
        /\ log[Len(log)] = Event("sync", NoKey, "")
        /\ log[Len(log) - 1] = Event("store_set", last.key, hash_key(last.key))

C3_Witness ==
    /\ Enabled /\ last.op = "setitem" /\ last.err = Ok
    /\ Events(log, "store_del") # {}

\* C4: a get of key k right after a successful set(k, v) returns v, with or
\* without persistence, whatever the state the set was called in.
C4_SetThenGet ==
    (last.op = "getitem" /\ last.set_before # NoVal)
        => (last.err = Ok /\ last.ret = last.set_before)

C4_Witness ==
    /\ last.op = "getitem" /\ last.set_before # NoVal /\ last.ret = last.set_before
    /\ Enabled /\ Len(wrapped) = maxsize

\* the keys a new instance loaded from the same filename may hold
ReloadedKeys ==
    UNION {CacheKeys(Reloaded(order).wrapped) : order \in Perms(DOMAIN shelf)}

NotPersisted(k) == k \notin RecordKeys(shelf) /\ k \notin ReloadedKeys

\* C5: with persistence enabled, a reload holds only keys that have a record
\* in the store; a __delitem__ that removed key k from the cache leaves the
\* store without a record of k; and no later call (a new instance included)
\* brings a record of k back but a set of k.
C5_DeletedStaysDeleted ==
    /\ [](Enabled => ReloadedKeys \subseteq RecordKeys(shelf))
    /\ [][ Enabled =>
             /\ (last'.op = "delitem" /\ Events(log', "mem_del") # {})
                    => last'.key \notin RecordKeys(shelf')
             /\ (RecordKeys(shelf') \ RecordKeys(shelf))
                    \subseteq (IF last'.op = "setitem" THEN {last'.key} ELSE {}) ]_vars

C5_Witness ==
    /\ Enabled /\ last.op = "delitem" /\ last.err = Ok
    /\ Events(log, "mem_del") # {} /\ Events(log, "store_del") # {}
    /\ DOMAIN shelf # {}
    /\ NotPersisted(last.key)

\* C6: after a successful set that evicted a key, no record of the evicted key
\* is left and a reload shows exactly the keys that survive in the cache.
C6_EvictionPropagates ==
    (Enabled /\ last.op = "setitem" /\ last.err = Ok /\ Events(log, "evict") # {}) =>
        /\ \A i \in Events(log, "evict") : log[i].key \notin RecordKeys(shelf)
        /\ \A order \in Perms(DOMAIN shelf) :
              CacheKeys(Reloaded(order).wrapped) = CacheKeys(wrapped)

\* C7: without a filename every call returns and raises what the bare cache
\* does on the same calls, the store is never opened or written, and the
\* wrapped cache has no deletion hook.
C7_DisabledIsBareCache ==
    ~Enabled =>
        /\ ~hooked
        /\ persistent_dict = None
        /\ shelf = EmptyShelf
        /\ \A i \in 1..Len(log) : log[i].ev \in {"mem_set", "mem_del", "evict"}
        /\ last.err = bare.err
        /\ last.ret = bare.ret
        /\ last.found = bare.found
        /\ wrapped = bare.wrapped

C7_Witness ==
    /\ ~Enabled /\ last.op = "delitem" /\ last.err = CacheKeyError
    /\ Len(wrapped) = maxsize

\* C8: deleting a key that is absent from the in-memory cache (as it is once
\* the lazy initialisation of that call is done) raises the wrapped cache's
\* KeyError, does not invoke the callback and leaves the store as it was.
C8_DeleteAbsentKey ==
    [][ (/\ last'.op = "delitem"
         /\ \A order \in Orders :
               last'.key \notin CacheKeys(__getattr__(Start(order)).wrapped))
        => (/\ last'.err = CacheKeyError
            /\ Events(log', "callback") = {}
            /\ Events(log', "store_del") = {}
            /\ shelf' = shelf) ]_vars

C8_Witness ==
    /\ Enabled /\ last.op = "delitem" /\ last.err = CacheKeyError
    /\ DOMAIN shelf # {}
    /\ hash_key(last.key) \in DOMAIN shelf

\* C9: close() on an instance whose store is not open (closed before, never
\* opened, or persistence disabled) raises nothing and changes nothing.
C9_CloseIdempotent ==
    [][ (last'.op = "close" /\ persistent_dict = None)
        => (/\ last'.err = Ok
            /\ log' = <<>>
            /\ UNCHANGED <<filename, hooked, wrapped, persistent_dict, shelf, synced>>) ]_vars

C9_Witness ==
    /\ last.op = "close" /\ last.close_before /\ last.err = Ok
    /\ Enabled /\ DOMAIN shelf # {}

\* C10: the store of one instance is opened at most once: it is never open
\* again after close() has released it.
C10_NeverReopened ==
    ~(everClosed /\ Open)

\* C11: on the DelMixin subclass every removal of a key from the wrapped cache
\* (a __delitem__ call or an eviction during a set or a load) is followed at
\* once by one callback for that key, no callback comes without the removal
\* just before it, and a __delitem__ that raised the cache's KeyError made none.
C11_EveryRemovalReportedOnce ==
    hooked =>
        /\ \A i \in Events(log, "mem_del") :
              i < Len(log) /\ log[i + 1] = Event("callback", log[i].key, "")
        /\ \A i \in Events(log, "callback") :
              i > 1 /\ log[i - 1] = Event("mem_del", log[i].key, "")
        /\ \A i \in Events(log, "callback") : log[i].key \notin CacheKeys(wrapped)
              \/ \E j \in Events(log, "mem_set") : j > i /\ log[j].key = log[i].key
        /\ (last.op = "delitem" /\ last.err = CacheKeyError)
              => Events(log, "callback") = {}

C11_Witness ==
    /\ hooked /\ last.op = "setitem" /\ last.err = Ok
    /\ Events(log, "evict") # {} /\ Events(log, "callback") # {}

----------------------------------------------------------------------------
(* The lazy load on a shelf file that earlier runs left behind: a new       *)
(* instance makes its first call on it.                                     *)

\* the keys earlier instances may have persisted: those of this run's calls
\* and one more
LoadKeys == Keys \cup {MaxKey + 1}

Records == [key : LoadKeys, value : Values]

\* each record under the hash_key of its key, as __setitem__ writes it
WellFormed(sh) == \A h \in DOMAIN sh : hash_key(sh[h].key) = h

\* the files an earlier PersistentCache of any maxsize can leave
PersistedShelves ==
    UNION {{sh \in [D -> Records] : WellFormed(sh)} :
              D \in SUBSET {hash_key(k) : k \in LoadKeys}}

\* a store key that is the hash_key of no key
OrphanKey == "orphan"

\* a persisted file, with or without one more (key, value) record put directly
\* into the shelf under OrphanKey
TamperedShelves ==
    PersistedShelves \cup
    {[h \in DOMAIN sh \cup {OrphanKey} |-> IF h = OrphanKey THEN r ELSE sh[h]] :
        sh \in PersistedShelves, r \in Records}

InitOn(shelves) ==
    /\ filename = FileName
    /\ hooked = __init__(filename).hooked
    /\ wrapped = __init__(filename).wrapped
    /\ persistent_dict = __init__(filename).persistent_dict
    /\ shelf \in shelves
    /\ synced = TRUE
    /\ last = NoCall
    /\ log = <<>>
    /\ everClosed = FALSE
    /\ bare = BareResult(Machine(FALSE, <<>>, None, EmptyShelf, TRUE, <<>>))

InitReload == InitOn(PersistedShelves)
InitOrphan == InitOn(TamperedShelves)

\* the first call on a new instance, which opens the shelf and loads it
FirstCall == persistent_dict = None /\ last.op = "init"

NextLoad ==
    \/ FirstCall /\ \E key \in Keys, value \in Values : SetItem(key, value)
    \/ FirstCall /\ \E key \in Keys : GetItem(key)
    \/ FirstCall /\ \E key \in Keys : Contains(key)
    \/ FirstCall /\ \E key \in Keys : DelItem(key)
    \/ FirstCall /\ GetCurrsize
    \/ ~FirstCall /\ NewInstance

SpecReload == InitReload /\ [][NextLoad]_vars
SpecOrphan == InitOrphan /\ [][NextLoad]_vars

\* C12: whatever the shelf holds when it is opened (more records than maxsize,
\* a record under an unrelated store key), the load completes without an
\* error, and after it the keys of the store's records are the keys of the
\* in-memory cache.  A call of `key in cache` or cache.currsize, which can
\* raise nothing of its own, shows the load's outcome.
C12_LoadCompletesAndCorrects ==
    (last.op \in {"contains", "currsize"} /\ Events(log, "open") # {}) =>
        /\ last.err = Ok
        /\ RecordKeys(shelf) = CacheKeys(wrapped)

\* C13: a newly constructed instance has not opened the store.  With a
\* filename, a get, set, contains or forwarded attribute (delete, currsize)
\* made while the store is not open first opens it and then loads every record
\* of the store into the in-memory cache, before any other effect of the call;
\* a call made while the store is open neither opens nor loads.
C13_LazyInitialization ==
    /\ [](last.op = "init" => (persistent_dict = None /\ log = <<>>))
    /\ [][ (Enabled /\ last'.op \in {"getitem", "setitem", "contains", "delitem", "currsize"}) =>
             IF persistent_dict = None
             THEN LET n == Cardinality(DOMAIN shelf) IN
                  /\ persistent_dict' # None
                  /\ Len(log') >= 1 + 2 * n
                  /\ log'[1] = Event("open", NoKey, "")
                  /\ {log'[2 * j].hk : j \in 1..n} = DOMAIN shelf
                  /\ \A j \in 1..n :
                        /\ log'[2 * j] = Event("load", shelf[log'[2 * j].hk].key, log'[2 * j].hk)
                        /\ log'[2 * j + 1] = Event("mem_set", log'[2 * j].key, "")
                  /\ \A i \in (2 * n + 2)..Len(log') : log'[i].ev \notin {"open", "load"}
             ELSE Events(log', "open") = {} /\ Events(log', "load") = {} ]_vars

C13_Witness ==
    /\ Enabled /\ last.op = "contains" /\ last.err = Ok /\ last.found
    /\ Events(log, "open") # {} /\ Cardinality(Events(log, "load")) >= 2

StoreEvents(l) == Events(l, "store_set") \cup Events(l, "store_del") \cup Events(l, "sync")

\* the last element of a non-empty set of log positions
Latest(S) == CHOOSE i \in S : \A j \in S : j <= i

\* C14 (as stated): in a set or delete that returned without error, every
\* store step of the call (record write, record delete, sync) comes after the
\* call's own in-memory mutation: the write of the key for a set, the removal
\* of the key for a delete.
C14_MemoryBeforeStore ==
    (Enabled /\ last.err = Ok /\ last.op \in {"setitem", "delitem"}) =>
        LET own == IF last.op = "setitem"
                   THEN {i \in Events(log, "mem_set") : log[i].key = last.key}
                   ELSE {i \in Events(log, "mem_del") : log[i].key = last.key}
        IN /\ own # {}
           /\ \A i \in StoreEvents(log) : i > Latest(own)

\* C14 (amended): every store step comes after the in-memory mutation it
\* mirrors: a record write under hash_key(key) right after the in-memory write
\* of that key, the sync right after the record write, a record delete under
\* hash_key(key) after the in-memory removal of that key and its callback; in a
\* set that evicts, the record delete of the evicted key comes before the
\* in-memory write of the set's key.
C14_MirrorAfterMirroredMutation ==
    Enabled =>
        /\ \A i \in Events(log, "store_set") :
              /\ i > 1 /\ log[i - 1] = Event("mem_set", log[i].key, "")
              /\ log[i].hk = hash_key(log[i].key)
        /\ \A i \in Events(log, "sync") : i > 1 /\ log[i - 1].ev = "store_set"
        /\ \A i \in Events(log, "store_del") :
              /\ i > 2 /\ log[i - 1].ev = "callback"
              /\ log[i - 2] = Event("mem_del", log[i - 1].key, "")
              /\ log[i].hk = hash_key(log[i - 1].key)
        /\ (last.op = "setitem" /\ last.err = Ok) =>
              \A i \in Events(log, "store_del") : i < Latest(Events(log, "mem_set"))

C14_Witness ==
    /\ Enabled /\ last.op = "setitem" /\ last.err = Ok /\ Len(wrapped) = maxsize
    /\ Events(log, "evict") # {} /\ Events(log, "store_del") # {}
    /\ Events(log, "store_set") # {}

\* C15 (as stated): a get or a contains has no interaction with the store (it
\* does not open it, read its records, write, delete or sync), and a get that
\* fails fails with the wrapped cache's KeyError.
C15_ReadsTouchNoStore ==
    (Enabled /\ last.op \in {"getitem", "contains"}) =>
        /\ Events(log, "open") = {} /\ Events(log, "load") = {}
        /\ StoreEvents(log) = {}
        /\ last.err \in {Ok, CacheKeyError}

\* C15 (amended): a get or a contains made while the store is open, or with
\* persistence disabled, has no store effect at all: the store's records, its
\* handle and its flushed state are unchanged and nothing is opened or loaded;
\* contains answers from the in-memory cache and leaves it unchanged, a get of
\* a present key returns its in-memory value, and a get of a missing key raises
\* the wrapped cache's KeyError and leaves the in-memory cache unchanged.
C15_ReadsOnOpenStoreAreReadThrough ==
    [][ (last'.op \in {"getitem", "contains"} /\ (Open \/ ~Enabled)) =>
          /\ shelf' = shelf /\ persistent_dict' = persistent_dict /\ synced' = synced
          /\ log' = <<>>
          /\ (last'.op = "contains") =>
                /\ wrapped' = wrapped /\ last'.err = Ok
                /\ last'.found = (last'.key \in CacheKeys(wrapped))
          /\ (last'.op = "getitem" /\ last'.key \in CacheKeys(wrapped)) =>
                /\ last'.err = Ok /\ last'.ret = CacheMap(wrapped)[last'.key]
                /\ CacheMap(wrapped') = CacheMap(wrapped)
          /\ (last'.op = "getitem" /\ last'.key \notin CacheKeys(wrapped)) =>
                /\ last'.err = CacheKeyError /\ wrapped' = wrapped ]_vars

C15_Witness ==
    /\ Enabled /\ Open /\ last.op = "getitem" /\ last.err = CacheKeyError
    /\ log = <<>> /\ DOMAIN shelf # {} /\ last.key \notin CacheKeys(wrapped)

\* C16: a set made while the store is open changes the store in at most two
\* places: it writes at most one record, under hash_key(key), and deletes at
\* most one, under the hash_key of the key the set evicted; every record under
\* any other store key is the same before and after.
C16_SetStoreFrame ==
    [][ (Enabled /\ Open /\ last'.op = "setitem") =>
          LET evicted == {log'[i].key : i \in Events(log', "evict")}
              touched == {hash_key(last'.key)} \cup {hash_key(e) : e \in evicted}
          IN /\ Cardinality(Events(log', "store_set")) <= 1
             /\ Cardinality(Events(log', "store_del")) <= 1
             /\ \A i \in Events(log', "store_set") : log'[i].hk = hash_key(last'.key)
             /\ \A i \in Events(log', "store_del") : log'[i].hk \in {hash_key(e) : e \in evicted}
             /\ \A h \in (DOMAIN shelf \cup DOMAIN shelf') \ touched :
                   h \in DOMAIN shelf /\ h \in DOMAIN shelf' /\ shelf'[h] = shelf[h] ]_vars

C16_Witness ==
    /\ Enabled /\ last.op = "setitem" /\ last.err = Ok
    /\ Len(log) = 7 /\ log[1].ev = "evict" /\ log[4].ev = "store_del"
    /\ log[7].ev = "sync" /\ Cardinality(DOMAIN shelf) = maxsize

----------------------------------------------------------------------------
(* The program with sets whose value the shelf cannot pickle *)

NextFail ==
    \/ Next
    \/ \E key \in Keys : SetItem(key, Unpicklable)

SpecFail == Init /\ [][NextFail]_vars

\* C17: after a set whose store write failed, the in-memory cache holds no
\* entry for the key that the store lacks: the key is absent from the cache,
\* or the store holds under hash_key(key) the record of the cache's value.
C17_FailedWriteLeavesCacheIntact ==
    (Enabled /\ last.op = "setitem" /\ last.err = PicklingError) =>
        \/ last.key \notin CacheKeys(wrapped)
        \/ /\ hash_key(last.key) \in DOMAIN shelf
           /\ shelf[hash_key(last.key)] =
                 [key |-> last.key, value |-> CacheMap(wrapped)[last.key]]

\* C18: with the store open, after a set or delete that returned without
\* error, the store holds for every key k of the in-memory cache, under
\* hash_key(k), the record (k, v) with v the cache's value for k.
C18_ValueLevelMirror ==
    (Enabled /\ Open /\ last.op \in {"setitem", "delitem"} /\ last.err = Ok) =>
        \A k \in CacheKeys(wrapped) :
            /\ hash_key(k) \in DOMAIN shelf
            /\ shelf[hash_key(k)] = [key |-> k, value |-> CacheMap(wrapped)[k]]

\* C19: no delete and no set ends with the store's KeyError: the callback's
\* record delete for a key that was removed from the in-memory cache always
\* finds the record.
C19_CallbackFindsRecord ==
    (Enabled /\ last.op \in {"setitem", "delitem"}) => last.err # StoreKeyError

\* C20: the lazy load of a file written by PersistentCache, seen through a
\* first call that has no store effect of its own (get, contains, currsize),
\* writes no store record; every record left in the store is a record that was
\* there before, unchanged; and the records that are gone are exactly the
\* records of the keys the load evicted.
C20_LoadOnlyShrinksStore ==
    [][ (FirstCall /\ last'.op \in {"getitem", "contains", "currsize"}) =>
          LET evicted == {log'[i].key : i \in Events(log', "evict")} IN
          /\ Events(log', "store_set") = {}
          /\ DOMAIN shelf' \subseteq DOMAIN shelf
          /\ \A h \in DOMAIN shelf' : shelf'[h] = shelf[h]
          /\ {shelf[h].key : h \in DOMAIN shelf \ DOMAIN shelf'} = evicted ]_vars

C20_Witness ==
    /\ last.op = "contains" /\ last.err = Ok
    /\ Events(log, "open") # {} /\ Events(log, "evict") # {}
    /\ Events(log, "store_del") # {} /\ Cardinality(DOMAIN shelf) = maxsize

====
